---- MODULE Spec2Model ----
(***************************************************************************)
(* Bearer-token authentication core of microkit                            *)
(* (crates/microkit/src/auth.rs): the per-request gate                     *)
(* AuthenticatedUser::from_request_parts, AuthConfig::validate_token, the  *)
(* key resolution get_decoding_key over the shared jwks_cache              *)
(* (Arc<RwLock<Option<JwkSet>>>), fetch_jwks and refresh_jwks.             *)
(*                                                                         *)
(* Tasks are the concurrently running futures of the tokio runtime.  A     *)
(* task is suspended only where the code awaits: at the read lock, at the  *)
(* HTTP fetch and at the write lock.                                       *)
(***************************************************************************)
EXTENDS Integers, FiniteSets, Sequences, TLC

\* ------------------------------------------------------------------ bounds
NTasks == 2          \* concurrently running tasks
MaxCalls == 2        \* calls (gate requests, refresh_jwks) started in one run
MaxRoles == 2        \* length of a principal's groups and of a role list

\* --------------------------------------------------------------- constants
Leeway == 60         \* Validation::new(..) keeps the library's default leeway

Tasks == 1..NTasks

Kids == {"k1", "k2"}
NoKid == "nokid"
Forged == "forged"
JwkSets == SUBSET Kids          \* a JwkSet, as the set of the kids it holds
OtherKids == {"k3"}             \* the keys of a second provider
OtherJwkSets == SUBSET OtherKids

Issuer == "https://idp"         \* AuthConfig.issuer
ClientId == "client"            \* AuthConfig.audience, when configured
NoAud == "noaud"
NoAudClaim == [present |-> FALSE, vals |-> {}]
NowValues == {999, 1001, 1061}  \* validation times: before exp, after exp
                                \* within the leeway, after exp beyond it

\* Option<Vec<String>> of the two group claims
NoGroups == [present |-> FALSE, vals |-> <<>>]
SomeGroups(g) == [present |-> TRUE, vals |-> g]
GroupClaims(name) == {NoGroups, SomeGroups(<<>>), SomeGroups(<<name>>)}

\* Config.auth, the auth section of the YAML configuration, by what
\* create_auth_config reads of it
NoYamlAuth == [present |-> FALSE, audience |-> NoAud]
YamlAuth(a) == [present |-> TRUE, audience |-> a]
YamlAuths == {NoYamlAuth, YamlAuth(NoAud), YamlAuth(ClientId)}
\* MicroKit.auth: Option<AuthConfig>
NoAuth == [some |-> FALSE, audience |-> NoAud]

\* Option<String> of the email claim
NoEmail == [present |-> FALSE, val |-> ""]
SomeEmail(e) == [present |-> TRUE, val |-> e]

\* the "alg" a key of the JWKS declares for itself (Jwk.common.key_algorithm);
\* every key is an RSA key
KeyAlg(k) == IF k = "k2" THEN "RS384" ELSE "RS256"

None == [some |-> FALSE, keys |-> {}]
Some(s) == [some |-> TRUE, keys |-> s]

\* ------------------------------------------------------------------ tokens
\* A compact JWT, by the fields the code reads.  signer is the provider key
\* whose private half produced the signature segment (Forged: none of them).
GoodToken(k) ==
    [hdr |-> TRUE, kid |-> k, alg |-> "RS256", signer |-> k,
     sub |-> "u1", email |-> SomeEmail("u1@idp"), iss |-> Issuer, exp |-> 1000,
     aud |-> [present |-> TRUE, vals |-> {ClientId}],
     cognito_groups |-> SomeGroups(<<"a">>), groups |-> NoGroups]

Variants(b) ==
    { b,
      [b EXCEPT !.hdr = FALSE],
      [b EXCEPT !.kid = NoKid],
      [b EXCEPT !.alg = "HS256"],
      [b EXCEPT !.signer = Forged],
      [b EXCEPT !.iss = "https://evil"],
      [b EXCEPT !.iss = "https://idp/"],
      [b EXCEPT !.aud = NoAudClaim],
      [b EXCEPT !.aud = [present |-> TRUE, vals |-> {"other"}]],
      [b EXCEPT !.sub = "u2"],
      [b EXCEPT !.email = NoEmail] }
    \cup { [b EXCEPT !.cognito_groups = cg, !.groups = g] :
              cg \in GroupClaims("a"), g \in GroupClaims("b") }

Tokens == UNION { Variants(GoodToken(k)) : k \in Kids }
NoToken == [GoodToken("k1") EXCEPT !.hdr = FALSE, !.kid = NoKid]

\* An inbound request: the shape of its Authorization header and the token.
Requests ==
    { [auth |-> "bearer", token |-> tk] : tk \in Tokens }
    \cup { [auth |-> a, token |-> NoToken] : a \in {"absent", "basic"} }
NoRequest == [auth |-> "absent", token |-> NoToken]

\* The runs explored: "concurrent" has every task serve requests of a small
\* pool, "single" has one task serve any request, "providers" has one task
\* serve requests of the small pool next to a second AuthConfig, made by
\* another AuthConfig::oidc call for another provider.
Scenarios == {"concurrent", "single", "providers"}
CoreTokens ==
    { GoodToken(k) : k \in Kids }
RequestPool(sc) ==
    IF sc = "single" THEN Requests
    ELSE { [auth |-> "bearer", token |-> tk] : tk \in CoreTokens }
ActiveTasks(sc) == IF sc = "concurrent" THEN Tasks ELSE {1}
\* the configurations a scenario starts from: the audience decides nothing
\* for the tokens of the pool the concurrent validations draw from, so those
\* scenarios run with the configured client id only
ScenarioYamlAuths(sc) ==
    IF sc = "single" THEN YamlAuths ELSE {NoYamlAuth, YamlAuth(ClientId)}

\* group and role names: equal, differing in case, one a prefix of another
RoleNames == {"admin", "Admin", "adm", "user"}
RoleLists == UNION { [1..n -> RoleNames] : n \in 0..MaxRoles }
NoAnswer == [call |-> "", arg |-> <<>>, value |-> FALSE]

\* the CLI (crates/cli/src/main.rs): the run_command calls each subcommand
\* makes, in order
Commands == {"setup", "all", "run"}
Programs(cmd) ==
    IF cmd = "setup" THEN <<"podman-compose up -d", "dapr init --slim">>
    ELSE IF cmd = "all" THEN <<"dapr run -f .">>
    ELSE IF cmd = "run" THEN <<"cargo run --bin">>
    ELSE <<>>
CliCalls == DOMAIN Programs("setup")
ExitStatuses == {"success", "failure"}

NoClaims == [sub |-> "", email |-> NoEmail, iss |-> "", exp |-> 0, aud |-> NoAudClaim,
             cognito_groups |-> NoGroups, groups |-> NoGroups]
NoPrincipal == [built |-> FALSE, sub |-> "", email |-> NoEmail, groups |-> <<>>,
                claims |-> NoClaims]
NoResult == [status |-> 0, body |-> "", kind |-> ""]

VARIABLES
    scenario,     \* which runs are explored (fixed by Init)
    enable_auth,  \* MicroKitBuilder.enable_auth: with_auth() was called
    yaml_auth,    \* Config.auth
    auth_layer,   \* MicroKit::start installed inject_auth_config
    audience,     \* AuthConfig.audience: NoAud or the expected audience
    jwks_cache,   \* AuthConfig.jwks_cache: None or Some(JwkSet)
    other_cache,  \* jwks_cache of the AuthConfig of another oidc call
    readers,      \* tasks holding the RwLock's read guard
    writer,       \* tasks holding the RwLock's write guard (none or one)
    pc,           \* where each task is
    op,           \* "gate", "refresh" or "" (no call running)
    req,          \* the request a gate task serves
    kid,          \* validate_token's local kid
    jwks,         \* get_decoding_key / refresh_jwks local jwks
    key,          \* validate_token's local key
    vtime,        \* the time at which decode validated exp
    result,       \* what the call returned
    principal,    \* the AuthenticatedUser the gate returned
    fetches,      \* JWKS fetches the running call has started
    inflight,     \* tasks whose HTTP GET is in flight
    calls,        \* calls started so far
    stored,       \* the fetched set of the last cache write
    fetched,      \* the tasks holding a fetched set not yet written, in the
                  \* order in which their fetches completed
    stale,        \* those of them whose fetch completed before the fetch of
                  \* the set the cache holds
    user_groups,  \* AuthenticatedUser.groups of a principal a handler holds
    answer,       \* the last has_role / has_any_role call and what it returned
    cli_cmd,      \* the subcommand the CLI process runs ("": no CLI process)
    cli_pc,       \* where the CLI process is
    call,         \* which run_command call of the subcommand is running
    child,        \* each call's spawned child: none, running or its exit status
    interrupted,  \* each call's interrupted flag (Arc<AtomicBool>)
    handler,      \* the call whose closure is the process's Ctrl+C handler
    returned,     \* what each run_command call returned
    outcome       \* what the subcommand returned to main

vars == <<scenario, enable_auth, yaml_auth, auth_layer, audience, jwks_cache, other_cache, readers, writer, pc, op,
          req, kid,
          jwks, key, vtime, result, principal, fetches, inflight, calls,
          stored, fetched, stale, user_groups, answer, cli_cmd, cli_pc, call,
          child, interrupted, handler, returned, outcome>>

config == <<scenario, enable_auth, yaml_auth, auth_layer, audience>>
lock == <<readers, writer>>
locals == <<req, kid, jwks, key, vtime, principal>>
\* the order of the fetches
order == <<fetched, stale>>
\* what no step of the authentication core touches
role_checks == <<user_groups, answer>>
cli == <<cli_cmd, cli_pc, call, child, interrupted, handler, returned, outcome>>
outside == <<role_checks, cli>>
\* what no step of a call through the service's AuthConfig touches
elsewhere == <<other_cache, outside>>
\* the state of the authentication core
auth_core == <<config, jwks_cache, other_cache, lock, pc, op, locals, result,
               fetches, inflight, calls, stored, order>>

\* ---------------------------------------------------------- pure functions
\* a header decode that lets a header without kid through
decode_header_kid_optional(tk) ==
    IF ~tk.hdr THEN [ok |-> FALSE, kid |-> NoKid, msg |-> "Failed to decode JWT header"]
    ELSE [ok |-> TRUE, kid |-> tk.kid, msg |-> ""]

\* jsonwebtoken::decode_header, then header.kid.ok_or_else(..)
decode_header(tk) ==
    IF ~tk.hdr THEN [ok |-> FALSE, kid |-> NoKid, msg |-> "Failed to decode JWT header"]
    ELSE IF tk.kid = NoKid
         THEN [ok |-> FALSE, kid |-> NoKid, msg |-> "JWT missing 'kid' in header"]
         ELSE [ok |-> TRUE, kid |-> tk.kid, msg |-> ""]

\* jwks.find(kid), then DecodingKey::from_jwk
find_key_in_jwks(set, k) ==
    IF k \in set THEN [ok |-> TRUE, key |-> k, msg |-> ""]
    ELSE [ok |-> FALSE, key |-> NoKid, msg |-> "Key '" \o k \o "' not found in JWKS"]

\* the JwtClaims the token's claims segment deserializes to
claims_of(tk) ==
    [sub |-> tk.sub, email |-> tk.email, iss |-> tk.iss, exp |-> tk.exp,
     aud |-> tk.aud,
     cognito_groups |-> tk.cognito_groups, groups |-> tk.groups]

\* a mapping that reads the provider-specific field only
principal_groups_cognito_only(c) ==
    IF c.cognito_groups.present THEN c.cognito_groups.vals ELSE <<>>

\* claims.cognito_groups.clone().or_else(|| claims.groups.clone())
\*     .unwrap_or_default()
principal_groups(c) ==
    IF c.cognito_groups.present THEN c.cognito_groups.vals
    ELSE IF c.groups.present THEN c.groups.vals
    ELSE <<>>

\* decode with the signature check left out
decode_unsigned(tk, k, aud, now) ==
    IF tk.alg # "RS256" THEN "InvalidAlgorithm"
    ELSE IF tk.exp < now - Leeway THEN "ExpiredSignature"
    ELSE IF tk.iss # Issuer THEN "InvalidIssuer"
    ELSE IF aud # NoAud /\ tk.aud.present /\ aud \notin tk.aud.vals
         THEN "InvalidAudience"
    ELSE "ok"

\* decode with validate_aud left on when no audience is set: the library
\* then rejects every token that carries an aud claim
decode_validate_aud_on(tk, k, aud, now) ==
    IF tk.alg # "RS256" THEN "InvalidAlgorithm"
    ELSE IF tk.signer # k THEN "InvalidSignature"
    ELSE IF tk.exp < now - Leeway THEN "ExpiredSignature"
    ELSE IF tk.iss # Issuer THEN "InvalidIssuer"
    ELSE IF tk.aud.present /\ aud \notin tk.aud.vals THEN "InvalidAudience"
    ELSE "ok"

\* decode without set_issuer
decode_no_issuer(tk, k, aud, now) ==
    IF tk.alg # "RS256" THEN "InvalidAlgorithm"
    ELSE IF tk.signer # k THEN "InvalidSignature"
    ELSE IF tk.exp < now - Leeway THEN "ExpiredSignature"
    ELSE IF aud # NoAud /\ tk.aud.present /\ aud \notin tk.aud.vals
         THEN "InvalidAudience"
    ELSE "ok"

\* decode with validate_exp off
decode_no_exp(tk, k, aud, now) ==
    IF tk.alg # "RS256" THEN "InvalidAlgorithm"
    ELSE IF tk.signer # k THEN "InvalidSignature"
    ELSE IF tk.iss # Issuer THEN "InvalidIssuer"
    ELSE IF aud # NoAud /\ tk.aud.present /\ aud \notin tk.aud.vals
         THEN "InvalidAudience"
    ELSE "ok"

\* decode that validates the claims before it verifies the signature
decode_claims_first(tk, k, aud, now) ==
    IF tk.alg # "RS256" THEN "InvalidAlgorithm"
    ELSE IF tk.exp < now - Leeway THEN "ExpiredSignature"
    ELSE IF tk.iss # Issuer THEN "InvalidIssuer"
    ELSE IF aud # NoAud /\ tk.aud.present /\ aud \notin tk.aud.vals
         THEN "InvalidAudience"
    ELSE IF tk.signer # k THEN "InvalidSignature"
    ELSE "ok"

\* decode::<JwtClaims>(token, &key, &validation) with
\* Validation::new(Algorithm::RS256), set_issuer(&[issuer]) and either
\* set_audience(&[aud]) or validate_aud = false.  The outcome is the kind of
\* the first check that fails, or "ok".  The library checks, in this order:
\* the header's alg against the allowed algorithms, the signature under the
\* key, exp against now - leeway, iss, and aud when the claim is present and
\* an audience is set.
decode(tk, k, aud, now) ==
    IF tk.alg # "RS256" THEN "InvalidAlgorithm"
    ELSE IF tk.signer # k THEN "InvalidSignature"
    ELSE IF tk.exp < now - Leeway THEN "ExpiredSignature"
    ELSE IF tk.iss # Issuer THEN "InvalidIssuer"
    ELSE IF aud # NoAud /\ tk.aud.present /\ aud \notin tk.aud.vals
         THEN "InvalidAudience"
    ELSE "ok"

\* the rejections of from_request_parts
MissingCredential ==
    [status |-> 401, body |-> "Missing or invalid Authorization header", kind |-> "MissingCredential"]
\* a missing AuthConfig reported like an authentication failure
ConfigurationMissing_unauthorized ==
    [status |-> 401, body |-> "Authentication not configured", kind |-> "ConfigurationMissing"]

ConfigurationMissing ==
    [status |-> 500, body |-> "Authentication not configured", kind |-> "ConfigurationMissing"]
InvalidToken(msg, kind) ==
    [status |-> 401, body |-> "Invalid token: " \o msg, kind |-> kind]
Accepted == [status |-> 200, body |-> "", kind |-> "ok"]
\* the results of refresh_jwks
RefreshOk == [status |-> 0, body |-> "", kind |-> "ok"]
RefreshErr(msg) == [status |-> 0, body |-> msg, kind |-> "KeySetFetchFailed"]

\* the error of a call: the gate maps validate_token's error to a 401
Failure(t, msg, kind) ==
    IF op[t] = "gate" THEN InvalidToken(msg, kind) ELSE RefreshErr(msg)

\* no CLI process
CliOff ==
    /\ cli_cmd = "" /\ cli_pc = "off" /\ call = 0
    /\ child = [i \in CliCalls |-> "none"]
    /\ interrupted = [i \in CliCalls |-> FALSE]
    /\ handler = {}
    /\ returned = [i \in CliCalls |-> ""]
    /\ outcome = ""

\* ------------------------------------------------------------ construction
\* Config::create_auth_config: None without an auth section, else
\* AuthConfig::oidc(issuer, jwks_uri), with_audience when the section names
\* an audience
create_auth_config(yaml) ==
    IF ~yaml.present THEN NoAuth
    ELSE [some |-> TRUE, audience |-> yaml.audience]

\* a build that does not look at enable_auth
build_ignores_with_auth(enable, yaml) == create_auth_config(yaml)

\* MicroKitBuilder::build: auth is create_auth_config's value when with_auth
\* was called, None otherwise
build(enable, yaml) ==
    IF enable THEN create_auth_config(yaml) ELSE NoAuth

\* MicroKit::start: the router gets the inject_auth_config layer when
\* self.auth is Some
start(auth) == auth.some

\* -------------------------------------------------------------------- Init
\* The service is built and started.  AuthConfig::oidc: jwks_cache = None;
\* with_audience sets the audience when the configuration names one.  A run
\* starts with no call running, either right after construction or later,
\* with the key set of an earlier fetch in the cache.
Init ==
    /\ scenario \in Scenarios
    /\ enable_auth \in BOOLEAN
    /\ yaml_auth \in ScenarioYamlAuths(scenario)
    /\ auth_layer = start(build(enable_auth, yaml_auth))
    /\ audience = build(enable_auth, yaml_auth).audience
    /\ jwks_cache \in IF auth_layer
                      THEN {None} \cup { Some(s) : s \in JwkSets }
                      ELSE {None}
    /\ other_cache = None
    /\ readers = {}
    /\ writer = {}
    /\ pc = [t \in Tasks |-> "idle"]
    /\ op = [t \in Tasks |-> ""]
    /\ req = [t \in Tasks |-> NoRequest]
    /\ kid = [t \in Tasks |-> NoKid]
    /\ jwks = [t \in Tasks |-> {}]
    /\ key = [t \in Tasks |-> NoKid]
    /\ vtime = [t \in Tasks |-> 0]
    /\ result = [t \in Tasks |-> NoResult]
    /\ principal = [t \in Tasks |-> NoPrincipal]
    /\ fetches = [t \in Tasks |-> 0]
    /\ inflight = {}
    /\ calls = 0
    /\ stored = jwks_cache.keys
    /\ fetched = <<>>
    /\ stale = {}
    /\ user_groups = <<>>
    /\ answer = NoAnswer
    /\ CliOff

\* the call of task t returns r
Done(t, r) ==
    /\ pc' = [pc EXCEPT ![t] = "done"]
    /\ result' = [result EXCEPT ![t] = r]

\* ------------------------------------------------------------ the gate
\* a request reaches a handler that takes an AuthenticatedUser
Request(t, r) ==
    /\ pc[t] = "idle"
    /\ t \in ActiveTasks(scenario)
    /\ r \in RequestPool(scenario)
    /\ calls < MaxCalls
    /\ calls' = calls + 1
    /\ op' = [op EXCEPT ![t] = "gate"]
    /\ req' = [req EXCEPT ![t] = r]
    /\ pc' = [pc EXCEPT ![t] = "extract"]
    /\ UNCHANGED <<config, elsewhere, order, jwks_cache, lock, kid, jwks, key, vtime, result,
                   principal, fetches, inflight, stored>>

\* a gate that looks for the AuthConfig before it looks at the header
ExtractBearer_config_first(t) ==
    /\ pc[t] = "extract"
    /\ IF ~auth_layer THEN Done(t, ConfigurationMissing)
       ELSE IF req[t].auth = "bearer"
            THEN pc' = [pc EXCEPT ![t] = "config"] /\ UNCHANGED result
            ELSE Done(t, MissingCredential)
    /\ UNCHANGED <<config, elsewhere, order, jwks_cache, lock, op, locals, fetches, inflight,
                   calls, stored>>

\* parts.extract::<TypedHeader<Authorization<Bearer>>>()
ExtractBearer(t) ==
    /\ pc[t] = "extract"
    /\ IF req[t].auth = "bearer"
       THEN pc' = [pc EXCEPT ![t] = "config"] /\ UNCHANGED result
       ELSE Done(t, MissingCredential)
    /\ UNCHANGED <<config, elsewhere, order, jwks_cache, lock, op, locals, fetches, inflight,
                   calls, stored>>

\* parts.extensions.get::<AuthConfig>()
GetAuthConfig(t) ==
    /\ pc[t] = "config"
    /\ IF auth_layer
       THEN pc' = [pc EXCEPT ![t] = "header"] /\ UNCHANGED result
       ELSE Done(t, ConfigurationMissing)
    /\ UNCHANGED <<config, elsewhere, order, jwks_cache, lock, op, locals, fetches, inflight,
                   calls, stored>>

\* validate_token: decode_header and the kid
DecodeHeader(t) ==
    /\ pc[t] = "header"
    /\ LET h == decode_header(req[t].token) IN
       IF h.ok
       THEN /\ kid' = [kid EXCEPT ![t] = h.kid]
            /\ pc' = [pc EXCEPT ![t] = "read_wait"]
            /\ UNCHANGED result
       ELSE /\ Done(t, InvalidToken(h.msg, "MalformedToken"))
            /\ UNCHANGED kid
    /\ UNCHANGED <<config, elsewhere, order, jwks_cache, lock, op, req, jwks, key, vtime,
                   principal, fetches, inflight, calls, stored>>

\* ------------------------------------------------------ get_decoding_key
\* self.jwks_cache.read().await
AcquireRead(t) ==
    /\ pc[t] = "read_wait"
    /\ writer = {}
    /\ readers' = readers \cup {t}
    /\ pc' = [pc EXCEPT ![t] = "read"]
    /\ UNCHANGED <<config, elsewhere, order, jwks_cache, writer, op, locals, result, fetches,
                   inflight, calls, stored>>

\* a lookup that goes to the endpoint whatever the cache holds
get_decoding_key_read_always_miss(cache, k) ==
    [hit |-> FALSE, found |-> find_key_in_jwks({}, k)]

\* a lookup that goes to the endpoint when the cached set lacks the kid
get_decoding_key_read_refresh_on_miss(cache, k) ==
    IF cache.some /\ k \in cache.keys
    THEN [hit |-> TRUE, found |-> find_key_in_jwks(cache.keys, k)]
    ELSE [hit |-> FALSE, found |-> find_key_in_jwks({}, k)]

\* what get_decoding_key does with the cache it reads: Some(jwks) answers
\* from the cached set, None goes on to the fetch
get_decoding_key_read(cache, k) ==
    IF cache.some
    THEN [hit |-> TRUE, found |-> find_key_in_jwks(cache.keys, k)]
    ELSE [hit |-> FALSE, found |-> find_key_in_jwks({}, k)]

\* a read guard that outlives its block
drop_read_guard_late(rs, t) == rs

\* the read guard of get_decoding_key lives in a block of its own
drop_read_guard(rs, t) == rs \ {t}

\* the block under the read guard; the guard is dropped at its end
ReadCache(t) ==
    /\ pc[t] = "read"
    /\ t \in readers
    /\ readers' = drop_read_guard(readers, t)
    /\ LET r == get_decoding_key_read(jwks_cache, kid[t]) IN
       IF r.hit
       THEN IF r.found.ok
            THEN /\ key' = [key EXCEPT ![t] = r.found.key]
                 /\ pc' = [pc EXCEPT ![t] = "verify"]
                 /\ UNCHANGED result
            ELSE /\ Done(t, InvalidToken(r.found.msg, "KeyNotFound"))
                 /\ UNCHANGED key
       ELSE /\ pc' = [pc EXCEPT ![t] = "fetch"]
            /\ UNCHANGED <<key, result>>
    /\ UNCHANGED <<config, elsewhere, order, jwks_cache, writer, op, req, kid, jwks, vtime,
                   principal, fetches, inflight, calls, stored>>

\* ------------------------------------------------------------ fetch_jwks
\* a fetch that waits for the fetch another task has in flight
StartFetch_single_flight(t) ==
    /\ pc[t] = "fetch"
    /\ inflight = {}
    /\ pc' = [pc EXCEPT ![t] = "fetching"]
    /\ fetches' = [fetches EXCEPT ![t] = @ + 1]
    /\ inflight' = inflight \cup {t}
    /\ UNCHANGED <<config, elsewhere, order, jwks_cache, lock, op, locals, result, calls,
                   stored>>

\* reqwest::get(&self.jwks_uri) is sent
StartFetch(t) ==
    /\ pc[t] = "fetch"
    /\ pc' = [pc EXCEPT ![t] = "fetching"]
    /\ fetches' = [fetches EXCEPT ![t] = @ + 1]
    /\ inflight' = inflight \cup {t}
    /\ UNCHANGED <<config, elsewhere, order, jwks_cache, lock, op, locals, result, calls,
                   stored>>

\* the endpoint answers with a key set that parses
FetchOk(t, set) ==
    /\ pc[t] = "fetching"
    /\ inflight' = inflight \ {t}
    /\ jwks' = [jwks EXCEPT ![t] = set]
    /\ pc' = [pc EXCEPT ![t] = "write_wait"]
    /\ fetched' = Append(fetched, t)
    /\ UNCHANGED <<config, elsewhere, stale, jwks_cache, lock, op, req, kid, key, vtime, result,
                   principal, fetches, calls, stored>>

\* a failed fetch that is tried again
FetchFail_retry(t, msg) ==
    /\ pc[t] = "fetching"
    /\ inflight' = inflight \ {t}
    /\ pc' = [pc EXCEPT ![t] = "fetch"]
    /\ UNCHANGED <<config, elsewhere, order, jwks_cache, lock, op, locals, result, fetches,
                   calls, stored>>

\* the GET fails, or the body is no JwkSet: fetch_jwks returns Err and `?`
\* returns it from get_decoding_key / refresh_jwks
FetchFail(t, msg) ==
    /\ pc[t] = "fetching"
    /\ inflight' = inflight \ {t}
    /\ Done(t, Failure(t, msg, "KeySetFetchFailed"))
    /\ UNCHANGED <<config, elsewhere, order, jwks_cache, lock, op, locals, fetches, calls,
                   stored>>

\* self.jwks_cache.write().await
AcquireWrite(t) ==
    /\ pc[t] = "write_wait"
    /\ writer = {}
    /\ readers = {}
    /\ writer' = {t}
    /\ pc' = [pc EXCEPT ![t] = "write"]
    /\ UNCHANGED <<config, elsewhere, order, jwks_cache, readers, op, locals, result, fetches,
                   inflight, calls, stored>>

\* a write that adds the fetched keys to the cached ones
cache_store_merge(cache, set) == Some(cache.keys \cup set)

\* a write that fills the cache only when it is empty
cache_store_keep(cache, set) == IF cache.some THEN cache ELSE Some(set)

\* the position of task t in the sequence q
Position(q, t) == CHOOSE i \in DOMAIN q : q[i] = t
\* the sequence q without task t
Without(q, t) == SelectSeq(q, LAMBDA u : u # t)
\* the tasks of q that come before task t
Before(q, t) == { q[i] : i \in 1..(Position(q, t) - 1) }

\* *cache = Some(jwks)
cache_store(cache, set) == Some(set)

\* the key get_decoding_key returns after its write
get_decoding_key_after_write(cache, set, k) == find_key_in_jwks(set, k)

\* under the write guard: the cache is replaced; get_decoding_key then looks
\* the kid up in its local jwks, refresh_jwks returns Ok(()); the guard is
\* dropped when the function returns, and so is the local jwks
WriteCache(t) ==
    /\ pc[t] = "write"
    /\ writer = {t}
    /\ jwks_cache' = cache_store(jwks_cache, jwks[t])
    /\ stored' = jwks[t]
    /\ writer' = {}
    /\ IF op[t] = "refresh"
       THEN Done(t, RefreshOk) /\ UNCHANGED key
       ELSE LET f == get_decoding_key_after_write(jwks_cache', jwks[t], kid[t]) IN
            IF f.ok
            THEN /\ key' = [key EXCEPT ![t] = f.key]
                 /\ pc' = [pc EXCEPT ![t] = "verify"]
                 /\ UNCHANGED result
            ELSE /\ Done(t, InvalidToken(f.msg, "KeyNotFound"))
                 /\ UNCHANGED key
    /\ jwks' = [jwks EXCEPT ![t] = {}]
    /\ stale' = Before(fetched, t)
    /\ fetched' = Without(fetched, t)
    /\ UNCHANGED <<config, elsewhere, readers, op, req, kid, vtime, principal,
                   fetches, inflight, calls>>

\* ---------------------------------------------------- validate_token, end
\* a validation whose error is not returned
Verify_keeps_going(t, now) ==
    /\ pc[t] = "verify"
    /\ pc' = [pc EXCEPT ![t] = "map"]
    /\ vtime' = [vtime EXCEPT ![t] = now]
    /\ UNCHANGED <<config, elsewhere, order, jwks_cache, lock, op, req, kid, jwks, key, result,
                   principal, fetches, inflight, calls, stored>>

\* decode::<JwtClaims>(token, &key, &validation) at validation time now
Verify(t, now) ==
    /\ pc[t] = "verify"
    /\ LET d == decode(req[t].token, key[t], audience, now) IN
       IF d = "ok"
       THEN /\ pc' = [pc EXCEPT ![t] = "map"]
            /\ vtime' = [vtime EXCEPT ![t] = now]
            /\ UNCHANGED result
       ELSE /\ Done(t, InvalidToken("Failed to validate JWT", d))
            /\ vtime' = [vtime EXCEPT ![t] = now]
    /\ UNCHANGED <<config, elsewhere, order, jwks_cache, lock, op, req, kid, jwks, key,
                   principal, fetches, inflight, calls, stored>>

\* Ok(AuthenticatedUser { sub, email, groups, claims })
BuildPrincipal(t) ==
    /\ pc[t] = "map"
    /\ LET c == claims_of(req[t].token) IN
       principal' = [principal EXCEPT ![t] =
                        [built |-> TRUE, sub |-> c.sub, email |-> c.email,
                         groups |-> principal_groups(c), claims |-> c]]
    /\ Done(t, Accepted)
    /\ UNCHANGED <<config, elsewhere, order, jwks_cache, lock, op, req, kid, jwks, key, vtime,
                   fetches, inflight, calls, stored>>

\* ---------------------------------------------------------- refresh_jwks
RefreshCall(t) ==
    /\ pc[t] = "idle"
    /\ t \in ActiveTasks(scenario)
    /\ auth_layer
    /\ calls < MaxCalls
    /\ calls' = calls + 1
    /\ op' = [op EXCEPT ![t] = "refresh"]
    /\ pc' = [pc EXCEPT ![t] = "fetch"]
    /\ UNCHANGED <<config, elsewhere, order, jwks_cache, lock, locals, result, fetches,
                   inflight, stored>>

\* ------------------------------------------------- a second AuthConfig
\* a cache shared by every AuthConfig of the process
oidc_static(n) == 1

\* AuthConfig::oidc: Arc::new(RwLock::new(None)) allocates a cache of its
\* own; the n-th oidc call of the process gets cell n.  Cell 1 is the
\* service's jwks_cache (cloning an AuthConfig clones the Arc, so every
\* per-request copy points to cell 1), cell 2 is other_cache.
oidc(n) == n

\* refresh_jwks through the AuthConfig of the second oidc call: its endpoint
\* returned set, which replaces the content of its cache
OtherRefresh(set) ==
    /\ scenario = "providers"
    /\ IF oidc(2) = 1
       THEN /\ writer = {} /\ readers = {}
            /\ jwks_cache' = Some(set)
            /\ stored' = set
            /\ UNCHANGED other_cache
       ELSE /\ other_cache' = Some(set)
            /\ UNCHANGED <<jwks_cache, stored>>
    /\ UNCHANGED <<config, outside, order, lock, pc, op, locals, result, fetches,
                   inflight, calls>>

\* the caller has its result; the call's locals are dropped
Return(t) ==
    /\ pc[t] = "done"
    /\ pc' = [pc EXCEPT ![t] = "idle"]
    /\ op' = [op EXCEPT ![t] = ""]
    /\ req' = [req EXCEPT ![t] = NoRequest]
    /\ kid' = [kid EXCEPT ![t] = NoKid]
    /\ jwks' = [jwks EXCEPT ![t] = {}]
    /\ key' = [key EXCEPT ![t] = NoKid]
    /\ vtime' = [vtime EXCEPT ![t] = 0]
    /\ result' = [result EXCEPT ![t] = NoResult]
    /\ principal' = [principal EXCEPT ![t] = NoPrincipal]
    /\ fetches' = [fetches EXCEPT ![t] = 0]
    /\ UNCHANGED <<config, elsewhere, order, jwks_cache, lock, inflight, calls, stored>>

Next ==
    \/ \E t \in Tasks, r \in Requests : Request(t, r)
    \/ \E t \in Tasks : ExtractBearer(t)
    \/ \E t \in Tasks : GetAuthConfig(t)
    \/ \E t \in Tasks : DecodeHeader(t)
    \/ \E t \in Tasks : AcquireRead(t)
    \/ \E t \in Tasks : ReadCache(t)
    \/ \E t \in Tasks : StartFetch(t)
    \/ \E t \in Tasks, set \in JwkSets : FetchOk(t, set)
    \/ \E t \in Tasks, msg \in {"Failed to fetch JWKS", "Failed to parse JWKS JSON"} :
          FetchFail(t, msg)
    \/ \E t \in Tasks : AcquireWrite(t)
    \/ \E t \in Tasks : WriteCache(t)
    \/ \E t \in Tasks, now \in NowValues : Verify(t, now)
    \/ \E t \in Tasks : BuildPrincipal(t)
    \/ \E t \in Tasks : RefreshCall(t)
    \/ \E t \in Tasks : Return(t)
    \/ \E set \in OtherJwkSets : OtherRefresh(set)

Spec == Init /\ [][Next]_vars

\* ------------------------------------------- AuthenticatedUser's role checks
\* a comparison that ignores case
lower(x) == IF x = "Admin" THEN "admin" ELSE x

RECURSIVE has_role_ignore_case(_, _)
has_role_ignore_case(groups, role) ==
    IF groups = <<>> THEN FALSE
    ELSE IF lower(Head(groups)) = lower(role) THEN TRUE
    ELSE has_role_ignore_case(Tail(groups), role)

\* self.groups.iter().any(|g| g == role)
RECURSIVE has_role(_, _)
has_role(groups, role) ==
    IF groups = <<>> THEN FALSE
    ELSE IF Head(groups) = role THEN TRUE
    ELSE has_role(Tail(groups), role)

\* roles.iter().any(|role| self.has_role(role))
RECURSIVE has_any_role(_, _)
has_any_role(groups, roles) ==
    IF roles = <<>> THEN FALSE
    ELSE IF has_role(groups, Head(roles)) THEN TRUE
    ELSE has_any_role(groups, Tail(roles))

\* no call of the core runs
Quiet ==
    /\ scenario = "single" /\ enable_auth = FALSE /\ yaml_auth = NoYamlAuth
    /\ auth_layer = FALSE /\ audience = NoAud
    /\ jwks_cache = None /\ other_cache = None
    /\ readers = {} /\ writer = {}
    /\ pc = [t \in Tasks |-> "idle"]
    /\ op = [t \in Tasks |-> ""]
    /\ req = [t \in Tasks |-> NoRequest]
    /\ kid = [t \in Tasks |-> NoKid]
    /\ jwks = [t \in Tasks |-> {}]
    /\ key = [t \in Tasks |-> NoKid]
    /\ vtime = [t \in Tasks |-> 0]
    /\ result = [t \in Tasks |-> NoResult]
    /\ principal = [t \in Tasks |-> NoPrincipal]
    /\ fetches = [t \in Tasks |-> 0]
    /\ inflight = {}
    /\ calls = 0
    /\ stored = {}
    /\ fetched = <<>>
    /\ stale = {}

\* a handler holds a principal with any groups
HolderInit ==
    /\ Quiet
    /\ user_groups \in RoleLists
    /\ answer = NoAnswer
    /\ CliOff

HasRole(role) ==
    /\ answer' = [call |-> "has_role", arg |-> <<role>>,
                  value |-> has_role(user_groups, role)]
    /\ UNCHANGED <<auth_core, cli, user_groups>>

HasAnyRole(roles) ==
    /\ answer' = [call |-> "has_any_role", arg |-> roles,
                  value |-> has_any_role(user_groups, roles)]
    /\ UNCHANGED <<auth_core, cli, user_groups>>

NextRoles ==
    \/ \E role \in RoleNames : HasRole(role)
    \/ \E roles \in RoleLists : HasAnyRole(roles)

SpecRoles == HolderInit /\ [][NextRoles]_vars

\* ------------------------------------------------------------------ the CLI
\* main has parsed the subcommand and calls its function, which makes its
\* first run_command call
InitCli ==
    /\ Quiet
    /\ user_groups = <<>>
    /\ answer = NoAnswer
    /\ cli_cmd \in Commands
    /\ cli_pc = "spawn"
    /\ call = 1
    /\ child = [i \in CliCalls |-> "none"]
    /\ interrupted = [i \in CliCalls |-> FALSE]
    /\ handler = {}
    /\ returned = [i \in CliCalls |-> ""]
    /\ outcome = ""

\* run_command returns r to the subcommand's function
CliReturn(r) ==
    /\ returned' = [returned EXCEPT ![call] = r]
    /\ cli_pc' = "returned"

\* Command::new(program)...spawn() starts the child
SpawnOk ==
    /\ cli_pc = "spawn"
    /\ child' = [child EXCEPT ![call] = "running"]
    /\ cli_pc' = "handler"
    /\ UNCHANGED <<auth_core, role_checks, cli_cmd, call, interrupted, handler,
                   returned, outcome>>

\* spawn() fails: `?` returns "Failed to spawn command"
SpawnFail ==
    /\ cli_pc = "spawn"
    /\ CliReturn("Failed to spawn command")
    /\ UNCHANGED <<auth_core, role_checks, cli_cmd, call, child, interrupted, handler,
                   outcome>>

\* ctrlc::set_handler: registers the closure of call c when the process has
\* no handler yet, and fails (MultipleHandlers) when it has one
set_handler(h, c) ==
    IF h = {} THEN [ok |-> TRUE, handler |-> {c}]
    ELSE [ok |-> FALSE, handler |-> h]

\* ctrlc::set_handler(..).context("Failed to set Ctrl+C handler")?; on an
\* error the function returns while its child runs on
SetHandler ==
    /\ cli_pc = "handler"
    /\ LET r == set_handler(handler, call) IN
       /\ handler' = r.handler
       /\ IF r.ok
          THEN cli_pc' = "wait" /\ UNCHANGED returned
          ELSE CliReturn("Failed to set Ctrl+C handler")
    /\ UNCHANGED <<auth_core, role_checks, cli_cmd, call, child, interrupted,
                   outcome>>

\* child.wait()? returns once the child of this call has exited
Wait ==
    /\ cli_pc = "wait"
    /\ child[call] \in ExitStatuses
    /\ cli_pc' = "check"
    /\ UNCHANGED <<auth_core, role_checks, cli_cmd, call, child, interrupted, handler,
                   returned, outcome>>

\* if !output.success() { if interrupted.load() { return Ok(()) } bail!(..) }
\* Ok(())
CheckStatus ==
    /\ cli_pc = "check"
    /\ IF child[call] = "success" \/ interrupted[call]
       THEN CliReturn("Ok")
       ELSE CliReturn("Exit")
    /\ UNCHANGED <<auth_core, role_checks, cli_cmd, call, child, interrupted, handler,
                   outcome>>

\* the subcommand's function after a run_command call: `?` returns the
\* error, otherwise the next call is made, or Ok(()) is returned after the
\* last one
Proceed ==
    /\ cli_pc = "returned"
    /\ IF returned[call] # "Ok"
       THEN outcome' = "Err" /\ cli_pc' = "exit" /\ UNCHANGED call
       ELSE IF call < Len(Programs(cli_cmd))
            THEN call' = call + 1 /\ cli_pc' = "spawn" /\ UNCHANGED outcome
            ELSE outcome' = "Ok" /\ cli_pc' = "exit" /\ UNCHANGED call
    /\ UNCHANGED <<auth_core, role_checks, cli_cmd, child, interrupted, handler,
                   returned>>

\* a running child exits, of its own accord or on a SIGINT
ChildExit(i, status) ==
    /\ child[i] = "running"
    /\ child' = [child EXCEPT ![i] = status]
    /\ UNCHANGED <<auth_core, role_checks, cli_cmd, cli_pc, call, interrupted,
                   handler, returned, outcome>>

\* the user presses Ctrl+C: the registered closure stores true into the flag
\* it captured and signals the child it captured; with no handler
\* registered the signal ends the process
CtrlC ==
    /\ cli_pc \notin {"off", "exit", "killed"}
    /\ IF handler = {}
       THEN /\ cli_pc' = "killed"
            /\ UNCHANGED interrupted
       ELSE /\ interrupted' = [i \in CliCalls |->
                                  IF i \in handler THEN TRUE ELSE interrupted[i]]
            /\ UNCHANGED cli_pc
    /\ UNCHANGED <<auth_core, role_checks, cli_cmd, call, child, handler, returned,
                   outcome>>

NextCli ==
    \/ SpawnOk
    \/ SpawnFail
    \/ SetHandler
    \/ Wait
    \/ CheckStatus
    \/ Proceed
    \/ \E i \in CliCalls, status \in ExitStatuses : ChildExit(i, status)
    \/ CtrlC

SpecCli == InitCli /\ [][NextCli]_vars

\* The tokio runtime polls every task that can make progress, and the RwLock
\* queues its waiters fairly.  Nothing obliges the JWKS endpoint to answer:
\* reqwest::get is called on the default client, which sets no timeout, so
\* FetchOk and FetchFail carry no fairness.
Fairness ==
    \A t \in Tasks :
        /\ WF_vars(ExtractBearer(t))
        /\ WF_vars(GetAuthConfig(t))
        /\ WF_vars(DecodeHeader(t))
        /\ SF_vars(AcquireRead(t))
        /\ WF_vars(ReadCache(t))
        /\ WF_vars(StartFetch(t))
        /\ SF_vars(AcquireWrite(t))
        /\ WF_vars(WriteCache(t))
        /\ WF_vars(\E now \in NowValues : Verify(t, now))
        /\ WF_vars(BuildPrincipal(t))

FairSpec == Spec /\ Fairness

\* ------------------------------------------------------------- properties
TypeOK ==
    /\ jwks_cache \in {None} \cup { Some(x) : x \in JwkSets }
    /\ readers \subseteq Tasks /\ writer \subseteq Tasks
    /\ inflight \subseteq Tasks
    /\ calls \in 0..MaxCalls
    /\ \A t \in Tasks : req[t] \in Requests \cup {NoRequest}

\* C1: an AuthenticatedUser exists only for a request with a Bearer token
\* whose header decoded, whose kid resolved to a key of the provider, whose
\* signature that key verifies, and whose issuer, expiry and (if an audience
\* is configured) audience checks passed; its claims are that token's claims.
C1_PrincipalOnlyFromValidatedClaims ==
    \A t \in Tasks :
        principal[t].built =>
            LET tk == req[t].token IN
            /\ op[t] = "gate" /\ req[t].auth = "bearer" /\ auth_layer
            /\ tk.hdr /\ tk.kid \in Kids
            /\ key[t] = tk.kid
            /\ tk.signer = key[t]
            /\ tk.alg = "RS256"
            /\ tk.iss = Issuer
            /\ tk.exp >= vtime[t] - Leeway
            /\ (audience # NoAud /\ tk.aud.present => audience \in tk.aud.vals)
            /\ principal[t].claims = claims_of(tk)
            /\ result[t] = Accepted

C1_Witness ==
    \E t \in Tasks : principal[t].built /\ pc[t] = "done" /\ audience # NoAud

\* C2: a call that ends with key-not-found has made exactly one JWKS fetch
\* (the kid was looked up again in the refreshed set), also when the cache
\* already held other keys.
C2_MissRefreshesOnce ==
    \A t \in Tasks :
        (pc[t] = "done" /\ result[t].kind = "KeyNotFound") => fetches[t] = 1

\* C3: a resolution that reads a cached set holding its kid returns that key
\* and starts no fetch, then and for the rest of the call.
C3_CachedKidResolvesWithoutFetch ==
    [][\A t \in Tasks :
          /\ (pc[t] = "read" /\ pc'[t] # "read"
                /\ jwks_cache.some /\ kid[t] \in jwks_cache.keys)
             => (pc'[t] = "verify" /\ key'[t] = kid[t]
                   /\ fetches'[t] = 0 /\ t \notin inflight')
          /\ (pc[t] \in {"verify", "map"} /\ fetches[t] = 0)
             => (pc'[t] \in {"verify", "map", "done"} /\ fetches'[t] = 0)
      ]_vars

C3_Witness ==
    \E t \in Tasks :
        /\ pc[t] = "done" /\ result[t] = Accepted /\ fetches[t] = 0
        /\ jwks_cache.some /\ kid[t] \in jwks_cache.keys

\* the kid validate_token reads from the token of task t
KidOf(t) == decode_header(req[t].token).kid

\* the cache is populated, every running validation is of a token whose kid
\* it holds, and no call is past a read of an empty cache
Warm ==
    /\ jwks_cache.some
    /\ \A t \in Tasks :
          /\ op[t] # "refresh"
          /\ pc[t] \notin {"fetch", "fetching", "write_wait", "write"}
          /\ (op[t] = "gate" /\ pc[t] # "done" /\ decode_header(req[t].token).ok)
             => KidOf(t) \in jwks_cache.keys

\* C4: while the cache is warm, no step of the running validations starts a
\* fetch, writes the cache or leaves the warm state, under every interleaving.
C4_WarmCacheNeverFetches ==
    [][(Warm /\ calls' = calls)
          => (Warm' /\ jwks_cache' = jwks_cache /\ inflight' = {}
                /\ \A t \in Tasks : fetches'[t] = 0 \/ fetches'[t] = fetches[t])
      ]_vars

C4_Witness ==
    /\ Warm
    /\ \E t1, t2 \in Tasks :
          /\ t1 # t2
          /\ pc[t1] = "verify" /\ pc[t2] = "verify"
          /\ fetches[t1] = 0 /\ fetches[t2] = 0
          /\ kid[t1] # kid[t2]

\* C5: the cache is empty or holds exactly the set one fetch returned, and
\* no task reads it while a task writes it.
C5_CacheIsOneFetchedSet ==
    /\ (jwks_cache = None \/ jwks_cache = Some(stored))
    /\ (writer # {} => readers = {})
    /\ Cardinality(writer) <= 1

C5_Witness ==
    /\ jwks_cache.some
    /\ calls = 2
    /\ \A t \in Tasks : pc[t] = "done" /\ fetches[t] = 1 /\ result[t].kind = "ok"

\* C6: a task whose fetch is in flight, or not started yet, holds neither
\* guard of the cache's lock; guards are held only inside the read block and
\* the write block.
C6_NoLockHeldAcrossFetch ==
    /\ \A t \in Tasks :
          pc[t] \in {"fetch", "fetching", "write_wait"} => t \notin readers \cup writer
    /\ \A t \in readers : pc[t] = "read"
    /\ \A t \in writer : pc[t] = "write"

C6_Witness ==
    \E t1, t2 \in Tasks : pc[t1] = "fetching" /\ pc[t2] = "read" /\ t2 \in readers

\* C7: a call that read an empty cache starts its own fetch whatever the
\* other tasks have in flight, and writes the set that fetch returned.
C7_MissesAreNotDeduplicated ==
    /\ [](\A t \in Tasks : pc[t] = "fetch" => ENABLED StartFetch(t))
    /\ [][\A t \in Tasks :
             /\ (pc[t] = "read" /\ pc'[t] # "read" /\ ~jwks_cache.some)
                => pc'[t] = "fetch"
             /\ (pc[t] = "write" /\ pc'[t] # "write")
                => jwks_cache' = Some(jwks[t])
         ]_vars

C7_Witness ==
    \E t1, t2 \in Tasks :
        /\ t1 # t2 /\ op[t1] = "gate" /\ op[t2] = "gate"
        /\ kid[t1] = kid[t2]
        /\ pc[t1] = "write_wait" /\ pc[t2] = "write_wait"
        /\ fetches[t1] = 1 /\ fetches[t2] = 1

\* C8: a call starts at most one fetch; a failed fetch ends the call with
\* the fetch error and leaves the cache as it was; a call that reads an
\* empty cache starts from zero fetches.
C8_NoRetry ==
    /\ [](\A t \in Tasks : fetches[t] <= 1)
    /\ [][\A t \in Tasks :
             /\ (pc[t] = "fetching" /\ pc'[t] \notin {"fetching", "write_wait"})
                => /\ pc'[t] = "done"
                   /\ result'[t].kind = "KeySetFetchFailed"
                   /\ jwks_cache' = jwks_cache
             /\ (pc[t] = "fetch" /\ pc'[t] # "fetch")
                => (pc'[t] = "fetching" /\ fetches[t] = 0 /\ fetches'[t] = 1)
         ]_vars

C8_Witness ==
    \E t1, t2 \in Tasks :
        /\ t1 # t2
        /\ op[t1] = "gate" /\ pc[t1] = "done"
        /\ result[t1].kind = "KeySetFetchFailed" /\ result[t1].status = 401
        /\ op[t2] = "gate" /\ pc[t2] = "fetching"
        /\ ~jwks_cache.some

\* C9: a refresh_jwks whose fetch succeeded leaves the cache holding the
\* fetched set, whatever it held; one whose fetch failed returns an error and
\* leaves the cache unchanged.
C9_ForceRefresh ==
    [][\A t \in Tasks :
          op[t] = "refresh" =>
             /\ (pc[t] = "write" /\ pc'[t] # "write")
                => (jwks_cache' = Some(jwks[t]) /\ pc'[t] = "done"
                      /\ result'[t] = RefreshOk)
             /\ (pc[t] = "fetching" /\ pc'[t] = "done")
                => (jwks_cache' = jwks_cache
                      /\ result'[t].kind = "KeySetFetchFailed")
      ]_vars

C9_Witness ==
    \E t \in Tasks :
        /\ op[t] = "refresh" /\ pc[t] = "done"
        /\ result[t].kind = "KeySetFetchFailed"
        /\ jwks_cache.some /\ jwks_cache.keys # {}

\* C10: a request without a Bearer Authorization header ends as
\* MissingCredential (401), with or without an AuthConfig, and never decodes
\* a token, takes a guard of the cache or starts a fetch.
C10_MissingCredential ==
    \A t \in Tasks :
        (op[t] = "gate" /\ req[t].auth # "bearer") =>
            /\ pc[t] \in {"extract", "done"}
            /\ (pc[t] = "done" => result[t] = MissingCredential)
            /\ result[t].status \in {0, 401}
            /\ kid[t] = NoKid /\ key[t] = NoKid
            /\ fetches[t] = 0 /\ t \notin inflight
            /\ t \notin readers \cup writer
            /\ ~principal[t].built

C10_Witness ==
    \E t \in Tasks :
        /\ pc[t] = "done" /\ req[t].auth = "basic"
        /\ result[t] = MissingCredential /\ ~auth_layer

\* the token of the request task t serves
TokenOf(t) == req[t].token

\* C11: a request with a Bearer header and no AuthConfig in its extensions
\* ends as 500 "Authentication not configured", a status no authentication
\* failure has, and never decodes the token, takes a guard of the cache or
\* starts a fetch.
C11_ConfigurationMissing ==
    /\ \A t \in Tasks :
          (op[t] = "gate" /\ req[t].auth = "bearer" /\ ~auth_layer) =>
              /\ pc[t] \in {"extract", "config", "done"}
              /\ (pc[t] = "done" =>
                     /\ result[t].status = 500
                     /\ result[t].body = "Authentication not configured"
                     /\ result[t].kind = "ConfigurationMissing")
              /\ kid[t] = NoKid /\ key[t] = NoKid /\ vtime[t] = 0
              /\ fetches[t] = 0 /\ t \notin inflight
              /\ t \notin readers \cup writer
              /\ ~principal[t].built
    /\ \A t \in Tasks :
          (pc[t] = "done" /\ op[t] = "gate") =>
              /\ (result[t].kind = "ConfigurationMissing") = (result[t].status = 500)
              /\ (result[t].kind \notin {"ConfigurationMissing", "ok"})
                 => result[t].status = 401

C11_Witness ==
    \E t \in Tasks :
        /\ pc[t] = "done" /\ req[t].auth = "bearer" /\ TokenOf(t) = GoodToken("k1")
        /\ result[t].status = 500 /\ result[t].kind = "ConfigurationMissing"
        /\ ~auth_layer /\ fetches[t] = 0

\* the reasons for which validate_token rejects a token
AuthReasons ==
    {"MalformedToken", "KeyNotFound", "KeySetFetchFailed", "InvalidAlgorithm",
     "InvalidSignature", "ExpiredSignature", "InvalidIssuer", "InvalidAudience"}

\* C12: two requests rejected for an authentication reason get the same
\* status and the same body.
C12_UniformRejection ==
    \A t1, t2 \in Tasks :
        (/\ pc[t1] = "done" /\ op[t1] = "gate" /\ result[t1].kind \in AuthReasons
         /\ pc[t2] = "done" /\ op[t2] = "gate" /\ result[t2].kind \in AuthReasons)
        => (result[t1].status = result[t2].status /\ result[t1].body = result[t2].body)

\* the checks decode makes, at validation time now under key k
ChecksPassed(tk, k, now) ==
    /\ tk.alg = "RS256"
    /\ tk.signer = k
    /\ tk.exp >= now - Leeway
    /\ tk.iss = Issuer
    /\ (audience # NoAud /\ tk.aud.present => audience \in tk.aud.vals)

AfterExtract == {"config", "header", "read_wait", "read", "fetch", "fetching",
                 "write_wait", "write", "verify", "map"}
AfterConfig == AfterExtract \ {"config"}
AfterHeader == AfterConfig \ {"header"}
AfterResolve == {"verify", "map"}

\* what the steps before the one task t is at have established
StepsInOrder(t) ==
    /\ pc[t] \in AfterExtract => req[t].auth = "bearer"
    /\ pc[t] \in AfterConfig => auth_layer
    /\ pc[t] \in AfterHeader => (TokenOf(t).hdr /\ kid[t] = TokenOf(t).kid /\ kid[t] \in Kids)
    /\ pc[t] \notin AfterHeader \cup {"done"} => kid[t] = NoKid
    /\ pc[t] \in AfterResolve => (key[t] = kid[t] /\ key[t] \in Kids)
    /\ pc[t] \notin AfterResolve \cup {"done"} => key[t] = NoKid
    /\ pc[t] = "map" => ChecksPassed(TokenOf(t), key[t], vtime[t])
    /\ pc[t] # "done" => (~principal[t].built /\ result[t] = NoResult)
    /\ pc[t] \notin {"map", "done"} => vtime[t] = 0

\* the result of a finished request is the error of the first step that
\* failed, no later step has run, and a principal is built exactly when no
\* step failed
FirstErrorReturned(t) ==
    LET tk == TokenOf(t)
        k == result[t].kind
        hdr_ok == tk.hdr /\ tk.kid \in Kids
    IN  /\ k \in {"MissingCredential", "ConfigurationMissing", "ok"} \cup AuthReasons
        /\ (k = "MissingCredential") = (req[t].auth # "bearer")
        /\ (k = "ConfigurationMissing") = (req[t].auth = "bearer" /\ ~auth_layer)
        /\ (k = "MalformedToken") = (req[t].auth = "bearer" /\ auth_layer /\ ~hdr_ok)
        /\ k \in {"MissingCredential", "ConfigurationMissing", "MalformedToken"}
           => (kid[t] = NoKid /\ fetches[t] = 0)
        /\ k \in {"MissingCredential", "ConfigurationMissing", "MalformedToken",
                  "KeyNotFound", "KeySetFetchFailed"}
           => (key[t] = NoKid /\ vtime[t] = 0)
        /\ k \in {"InvalidAlgorithm", "InvalidSignature", "ExpiredSignature",
                  "InvalidIssuer", "InvalidAudience"}
           => (key[t] = tk.kid /\ vtime[t] # 0 /\ ~ChecksPassed(tk, key[t], vtime[t]))
        /\ k = "ok" => (key[t] = tk.kid /\ ChecksPassed(tk, key[t], vtime[t]))
        /\ principal[t].built = (k = "ok")
        /\ (k = "ok") = (result[t].status = 200)

\* C13: the gate runs bearer extraction, AuthConfig lookup, header decode,
\* key resolution, verification and principal construction in this order,
\* returns the error of the first failing step and runs no step after it; a
\* finished request is either a built principal or a rejection, and stays so.
C13_StepsInOrder ==
    /\ [](\A t \in Tasks :
             op[t] = "gate" =>
                 /\ StepsInOrder(t)
                 /\ pc[t] = "done" => FirstErrorReturned(t))
    /\ [][\A t \in Tasks :
             pc[t] = "done" =>
                 \/ pc'[t] = "idle"
                 \/ /\ pc'[t] = "done" /\ result'[t] = result[t]
                    /\ principal'[t] = principal[t] /\ fetches'[t] = fetches[t]
                    /\ t \notin readers' \cup writer' \cup inflight'
         ]_vars

C13_Witness ==
    \E t \in Tasks :
        /\ pc[t] = "done" /\ op[t] = "gate"
        /\ result[t].kind = "KeyNotFound"
        /\ TokenOf(t).signer = Forged

\* C14: a token whose header does not decode, or has no kid, is rejected as
\* malformed before key resolution: its request never reads the cache and
\* never starts a fetch, whatever the cache holds.
C14_MalformedBeforeResolution ==
    \A t \in Tasks :
        (op[t] = "gate" /\ req[t].auth = "bearer"
           /\ (~TokenOf(t).hdr \/ TokenOf(t).kid = NoKid)) =>
            /\ pc[t] \in {"extract", "config", "header", "done"}
            /\ (pc[t] = "done" /\ auth_layer) =>
                   /\ result[t].kind = "MalformedToken"
                   /\ result[t].status = 401
            /\ kid[t] = NoKid /\ key[t] = NoKid
            /\ fetches[t] = 0 /\ t \notin inflight
            /\ t \notin readers \cup writer
            /\ ~principal[t].built

C14_Witness ==
    \E t \in Tasks :
        /\ pc[t] = "done" /\ TokenOf(t).hdr /\ TokenOf(t).kid = NoKid
        /\ result[t].kind = "MalformedToken" /\ ~jwks_cache.some

\* the validation of task t's token has run, under the key its kid names
Validated(t) ==
    /\ pc[t] = "done" /\ op[t] = "gate"
    /\ key[t] = TokenOf(t).kid /\ vtime[t] # 0

\* C15 as stated: a token signed with the key its kid resolved to, with the
\* configured issuer and exp later than the validation time, yields a
\* principal with the token's sub, whatever the AuthConfig's audience.
C15_ValidTokenAlwaysAccepted ==
    \A t \in Tasks :
        (/\ Validated(t)
         /\ TokenOf(t).signer = key[t]
         /\ TokenOf(t).iss = Issuer
         /\ TokenOf(t).exp > vtime[t])
        => (principal[t].built /\ principal[t].sub = TokenOf(t).sub)

\* C15 as amended: such a token whose header alg is RS256 and whose aud
\* claim, when an audience is configured, contains that audience yields a
\* principal with the token's sub.
C15_ValidTokenAccepted ==
    \A t \in Tasks :
        (/\ Validated(t)
         /\ TokenOf(t).alg = "RS256"
         /\ TokenOf(t).signer = key[t]
         /\ TokenOf(t).iss = Issuer
         /\ TokenOf(t).exp > vtime[t]
         /\ (audience # NoAud
               => (TokenOf(t).aud.present /\ audience \in TokenOf(t).aud.vals)))
        => (/\ principal[t].built
            /\ principal[t].sub = TokenOf(t).sub
            /\ result[t] = Accepted)

C15_Witness ==
    \E t \in Tasks :
        /\ Validated(t) /\ principal[t].built
        /\ principal[t].sub = "u2" /\ TokenOf(t).sub = "u2"
        /\ vtime[t] < TokenOf(t).exp
        /\ fetches[t] = 1

\* C16: a token whose iss differs from the configured issuer never yields a
\* principal; with a valid signature and an exp that passes it is rejected
\* as InvalidIssuer.
C16_IssuerMustMatch ==
    \A t \in Tasks :
        (op[t] = "gate" /\ TokenOf(t).iss # Issuer) =>
            /\ ~principal[t].built
            /\ (/\ Validated(t)
                /\ TokenOf(t).alg = "RS256"
                /\ TokenOf(t).signer = key[t]
                /\ TokenOf(t).exp >= vtime[t] - Leeway)
               => (result[t].kind = "InvalidIssuer" /\ result[t].status = 401)

C16_Witness ==
    \E t \in Tasks :
        /\ Validated(t) /\ TokenOf(t).iss = "https://idp/"
        /\ TokenOf(t).signer = key[t] /\ vtime[t] < TokenOf(t).exp
        /\ result[t].kind = "InvalidIssuer"

\* C17 as stated: no principal is built at a validation time later than the
\* token's exp.
C17_ZeroLeeway ==
    \A t \in Tasks : principal[t].built => vtime[t] <= TokenOf(t).exp

\* C17 as amended: no principal is built at a validation time more than
\* Leeway seconds later than the token's exp, and a token with a valid
\* signature validated at such a time is rejected as ExpiredSignature.
C17_ExpiredRejectedBeyondLeeway ==
    \A t \in Tasks :
        /\ principal[t].built => vtime[t] <= TokenOf(t).exp + Leeway
        /\ (/\ Validated(t)
            /\ TokenOf(t).alg = "RS256"
            /\ TokenOf(t).signer = key[t]
            /\ vtime[t] > TokenOf(t).exp + Leeway)
           => (/\ result[t].kind = "ExpiredSignature"
               /\ result[t].status = 401
               /\ ~principal[t].built)

C17_Witness ==
    \E t \in Tasks :
        /\ Validated(t) /\ TokenOf(t) = GoodToken("k1")
        /\ vtime[t] > TokenOf(t).exp + Leeway
        /\ result[t].kind = "ExpiredSignature"

\* C18: with an audience configured, a principal is built only for a token
\* whose aud claim is present and contains that audience.
C18_AudienceEnforced ==
    \A t \in Tasks :
        (principal[t].built /\ audience # NoAud)
        => (TokenOf(t).aud.present /\ audience \in TokenOf(t).aud.vals)

\* C19: a principal is built only for a token whose header alg is the alg
\* the resolved key declares for itself.
C19_KeyAlgorithmUsed ==
    \A t \in Tasks :
        principal[t].built => TokenOf(t).alg = KeyAlg(key[t])

\* C20: the principal's groups are cognito:groups when present and
\* non-empty, else groups when present, else empty.
C20_GroupsPrecedence ==
    \A t \in Tasks :
        principal[t].built =>
            LET c == principal[t].claims IN
            principal[t].groups =
                IF c.cognito_groups.present /\ c.cognito_groups.vals # <<>>
                THEN c.cognito_groups.vals
                ELSE IF c.groups.present THEN c.groups.vals ELSE <<>>

\* C21: with at most one group field present the principal's groups are that
\* field's list (empty when neither is present); the mapping always yields a
\* principal, which carries the claims' sub and email and the whole claim set.
C21_GroupsOfOneField ==
    \A t \in Tasks :
        /\ pc[t] = "map" => ENABLED BuildPrincipal(t)
        /\ principal[t].built =>
              LET c == claims_of(TokenOf(t)) IN
              /\ (c.cognito_groups.present /\ ~c.groups.present)
                 => principal[t].groups = c.cognito_groups.vals
              /\ (~c.cognito_groups.present /\ c.groups.present)
                 => principal[t].groups = c.groups.vals
              /\ (~c.cognito_groups.present /\ ~c.groups.present)
                 => principal[t].groups = <<>>
              /\ principal[t].sub = c.sub
              /\ principal[t].email = c.email
              /\ principal[t].claims = c

C21_Witness ==
    \E t \in Tasks :
        /\ principal[t].built
        /\ ~TokenOf(t).cognito_groups.present
        /\ TokenOf(t).groups = SomeGroups(<<"b">>)
        /\ principal[t].groups = <<"b">>
        /\ principal[t].email = SomeEmail("u1@idp")

\* C22: every call that has started eventually returns a result, whatever
\* the JWKS endpoint does.
C22_EveryCallTerminates ==
    \A t \in Tasks : (pc[t] \notin {"idle", "done"}) ~> (pc[t] = "done")

\* C23: no call changes the audience or the installed layer; the cache of
\* the service's AuthConfig holds only sets of its own endpoint and the cache
\* of the second AuthConfig only sets of the second endpoint; a step of a
\* call through the service's AuthConfig leaves the second cache alone and a
\* refresh through the second AuthConfig leaves the service's cache and calls
\* alone; every task (each works on a clone) resolves from the set the last
\* writer, whichever task it was, stored.
C23_CacheOwnedByOneAuthConfig ==
    /\ [](/\ jwks_cache.keys \subseteq Kids
          /\ other_cache.keys \subseteq OtherKids)
    /\ [][/\ audience' = audience /\ auth_layer' = auth_layer
          /\ (pc' # pc => other_cache' = other_cache)
          /\ (other_cache' # other_cache
                => (jwks_cache' = jwks_cache /\ pc' = pc /\ result' = result))
          /\ \A t \in Tasks :
                (pc[t] = "read" /\ pc'[t] = "verify") => key'[t] \in stored
         ]_vars

C23_Witness ==
    /\ scenario = "providers"
    /\ other_cache = Some({"k3"})
    /\ jwks_cache = Some({"k1"})
    /\ pc[1] = "done" /\ result[1] = Accepted /\ fetches[1] = 1

\* C24 as stated: a request whose token has a well-formed RS256 header, a kid
\* of the provider and a mutated signature segment ends as InvalidSignature,
\* whatever the cache holds and whatever the endpoint answers.
C24_MutatedSignatureIsSignatureInvalid ==
    \A t \in Tasks :
        (/\ pc[t] = "done" /\ op[t] = "gate" /\ auth_layer
         /\ req[t].auth = "bearer"
         /\ TokenOf(t).hdr /\ TokenOf(t).kid \in Kids
         /\ TokenOf(t).alg = "RS256"
         /\ TokenOf(t).signer = Forged)
        => (result[t].kind = "InvalidSignature" /\ ~principal[t].built)

\* C24 as amended: no principal is built for a token with a mutated
\* signature segment, and when key resolution returned the key of its kid
\* the token is rejected as InvalidSignature, whatever its claims.
C24_MutatedSignatureRejected ==
    \A t \in Tasks :
        (op[t] = "gate" /\ TokenOf(t).signer = Forged) =>
            /\ ~principal[t].built
            /\ pc[t] # "map"
            /\ (Validated(t) /\ TokenOf(t).alg = "RS256")
               => (result[t].kind = "InvalidSignature" /\ result[t].status = 401)

C24_Witness ==
    \E t \in Tasks :
        /\ Validated(t) /\ TokenOf(t).signer = Forged
        /\ vtime[t] > TokenOf(t).exp + Leeway
        /\ fetches[t] = 1
        /\ result[t].kind = "InvalidSignature"

\* C25: has_role(r) is true exactly when r is one of the principal's groups
\* as a whole, case-sensitive string; has_any_role(rs) is true exactly when
\* some element of rs is one of the groups, hence false for an empty rs and
\* for empty groups.
C25_RoleChecks ==
    /\ answer.call = "has_role" =>
          answer.value = (\E i \in DOMAIN user_groups :
                             user_groups[i] = answer.arg[1])
    /\ answer.call = "has_any_role" =>
          /\ answer.value = (\E j \in DOMAIN answer.arg :
                                \E i \in DOMAIN user_groups :
                                    user_groups[i] = answer.arg[j])
          /\ (answer.arg = <<>> \/ user_groups = <<>>) => ~answer.value

C25_Witness ==
    /\ user_groups = <<"user", "admin">>
    /\ answer.call = "has_any_role"
    /\ answer.arg = <<"Admin", "adm">>
    /\ answer.value = FALSE

\* C26 as stated: while the cache holds a key set no validation is about to
\* start a fetch or to write the cache.
C26_PopulatedCacheFrozenForValidations ==
    \A t \in Tasks :
        (op[t] = "gate" /\ pc[t] \in {"fetch", "write"}) => ~jwks_cache.some

\* C26 as amended: a validation that reads a populated cache answers from it
\* at once, key or key-not-found, without starting a fetch or writing the
\* cache; a populated cache is changed only by the write of a refresh_jwks
\* call or of a validation that had read the cache while it was empty.
C26_PopulatedCacheAnswersAtOnce ==
    [][/\ \A t \in Tasks :
             (op[t] = "gate" /\ pc[t] = "read" /\ pc'[t] # "read"
                /\ jwks_cache.some)
             => /\ jwks_cache' = jwks_cache
                /\ inflight' = inflight
                /\ fetches'[t] = 0
                /\ IF kid[t] \in jwks_cache.keys
                   THEN pc'[t] = "verify" /\ key'[t] = kid[t]
                   ELSE /\ pc'[t] = "done"
                        /\ result'[t].kind = "KeyNotFound"
                        /\ result'[t].status = 401
       /\ (jwks_cache.some /\ jwks_cache' # jwks_cache)
             => \E t \in Tasks :
                   /\ pc[t] = "write" /\ pc'[t] # "write"
                   /\ (op[t] = "refresh" \/ fetches[t] = 1)
      ]_vars

C26_Witness ==
    \E t \in Tasks :
        /\ pc[t] = "done" /\ op[t] = "gate"
        /\ kid[t] = "k1" /\ jwks_cache = Some({"k2"})
        /\ result[t].kind = "KeyNotFound" /\ fetches[t] = 0
        /\ calls = MaxCalls

\* C27: no write replaces the cached set by a different set whose fetch
\* completed before the fetch of the set the cache holds.
C27_CacheNeverRegresses ==
    [][\A t \in Tasks :
          (pc[t] = "write" /\ pc'[t] # "write")
          => (t \notin stale \/ jwks_cache = Some(jwks[t]))
      ]_vars

\* C28: the write of a validation that had read an empty cache leaves the
\* cache holding the set its own fetch returned, whatever the cache held
\* before, and the validation goes on with the key of its kid exactly when
\* that set holds the kid; otherwise it ends with key-not-found.
C28_OwnFetchedSetDecides ==
    [][\A t \in Tasks :
          (op[t] = "gate" /\ pc[t] = "write" /\ pc'[t] # "write")
          => /\ jwks_cache' = Some(jwks[t])
             /\ IF kid[t] \in jwks[t]
                THEN pc'[t] = "verify" /\ key'[t] = kid[t]
                ELSE /\ pc'[t] = "done"
                     /\ result'[t].kind = "KeyNotFound"
                     /\ key'[t] = NoKid
      ]_vars

C28_Witness ==
    \E t, u \in Tasks :
        /\ t # u
        /\ op[t] = "gate" /\ op[u] = "gate"
        /\ fetches[t] = 1 /\ fetches[u] = 1
        /\ kid[t] = "k1" /\ kid[u] = "k1"
        /\ pc[u] = "done" /\ key[u] = "k1"
        /\ pc[t] = "done" /\ result[t].kind = "KeyNotFound"
        /\ jwks_cache = Some({"k2"})

\* C29: the layer that injects the AuthConfig is installed exactly when
\* with_auth() was called and the configuration has an auth section (and the
\* AuthConfig then has the section's audience); without it every request with
\* a Bearer header is answered 500 'Authentication not configured' and none
\* is authenticated; with it no request is answered ConfigurationMissing.
C29_LayerIffEnabledAndConfigured ==
    LET wanted == enable_auth /\ yaml_auth.present IN
    /\ auth_layer = wanted
    /\ auth_layer => audience = yaml_auth.audience
    /\ \A t \in Tasks :
          /\ (~wanted /\ pc[t] = "done" /\ op[t] = "gate"
                /\ req[t].auth = "bearer")
             => result[t] = ConfigurationMissing
          /\ ~wanted
             => (/\ ~principal[t].built
                 /\ pc[t] \in {"idle", "extract", "config", "done"})
          /\ wanted => result[t].kind # "ConfigurationMissing"

C29_Witness ==
    \E t \in Tasks :
        /\ enable_auth /\ ~yaml_auth.present
        /\ pc[t] = "done" /\ req[t].auth = "bearer"
        /\ TokenOf(t) = GoodToken("k1")
        /\ result[t].status = 500

\* C30: a run_command call whose child exited with success returned Ok,
\* whichever call of the process it was; a call whose child exited with
\* failure and that was not interrupted returned an error; setup starts its
\* second command only after the first call returned Ok, and returns Ok when
\* both children exited with success.
C30_RunCommandFollowsExitStatus ==
    /\ \A i \in CliCalls :
          returned[i] # "" =>
              /\ child[i] = "success" => returned[i] = "Ok"
              /\ (child[i] = "failure" /\ ~interrupted[i]) => returned[i] # "Ok"
    /\ cli_cmd = "setup" =>
          /\ child[2] # "none" => returned[1] = "Ok"
          /\ (cli_pc = "exit" /\ child[1] = "success" /\ child[2] = "success")
             => outcome = "Ok"

====
